---------------------------- MODULE Spec2Model ----------------------------
(***************************************************************************)
(* ASPEED GPIO controller (hw/gpio/aspeed_gpio.c): the banked register     *)
(* file, the command-source arbitration, the edge/level interrupt          *)
(* evaluation, the pin addressing and the MMIO dispatch; with it the       *)
(* reject bit array of the PHB3 MSI source (hw/pci-host/pnv_phb3_msi.c)    *)
(* and the receive path of the EFM32HG LEUART (hw/char/efm32hg_leuart.c).  *)
(*                                                                         *)
(* A 32-bit register value is the set of the positions of its 1 bits (a    *)
(* subset of 0..31): and, or, xor, not and the shifts are exact at width   *)
(* 32, and no value leaves the range of TLC's integers.                     *)
(***************************************************************************)
EXTENDS Integers, FiniteSets, Sequences, TLC

(***************************************************************************)
(* 32-bit words                                                            *)
(***************************************************************************)
ASPEED_GPIOS_PER_REG == 32

BitPos == 0 .. (ASPEED_GPIOS_PER_REG - 1)

\* 0x00000000 and 0xffffffff
ZERO == {}
ONES == BitPos

\* the word of a C integer constant 0 <= n < 2^31
RECURSIVE WordFrom(_, _)
WordFrom(n, pos) ==
    IF n = 0 THEN {}
    ELSE (IF n % 2 = 1 THEN {pos} ELSE {}) \cup WordFrom(n \div 2, pos + 1)

\* a word written as its two 16-bit halves, as in 0xhhhhllll
Word(hi, lo) == WordFrom(lo, 0) \cup WordFrom(hi, 16)

AND(a, b) == a \cap b
OR(a, b)  == a \cup b
XOR(a, b) == (a \ b) \cup (b \ a)
NOT(a)    == BitPos \ a
\* a << n at width 32, for 0 <= n < 32
SHL(a, n) == {i + n : i \in a} \cap BitPos
\* C's logical negation of a word: 1 if it is zero, else 0
LNOT(a)   == IF a = {} THEN {0} ELSE {}

\* extract32(value, start, length), include/qemu/bitops.h
RECURSIVE extract32(_, _, _)
extract32(value, start, length) ==
    IF length = 0 THEN 0
    ELSE (IF start \in value THEN 1 ELSE 0)
         + 2 * extract32(value, start + 1, length - 1)

\* deposit32(value, start, length, fieldval): value with the length bits
\* from start on replaced by the low bits of the number fieldval
deposit32(value, start, length, fieldval) ==
    (value \ (start .. (start + length - 1)))
        \cup {start + i : i \in {j \in 0 .. (length - 1) :
                                    (fieldval \div (2 ^ j)) % 2 = 1}}

(***************************************************************************)
(* Program constants                                                       *)
(***************************************************************************)
ASPEED_GPIO_MAX_NR_SETS == 8

ASPEED_CMD_SRC_MASK == Word(257, 257)      \* 0x01010101
ASPEED_SOURCE_ARM == 0

ASPEED_FALLING_EDGE == 0
ASPEED_RISING_EDGE == 1
ASPEED_LEVEL_LOW == 2
ASPEED_LEVEL_HIGH == 3
ASPEED_DUAL_EDGE == 4

\* struct GPIORegs, all fields zero (memset in aspeed_gpio_reset)
GPIORegs ==
    [data_value |-> ZERO, data_read |-> ZERO, direction |-> ZERO,
     int_enable |-> ZERO, int_sens_0 |-> ZERO, int_sens_1 |-> ZERO,
     int_sens_2 |-> ZERO, int_status |-> ZERO, reset_tol |-> ZERO,
     cmd_source_0 |-> ZERO, cmd_source_1 |-> ZERO, debounce_1 |-> ZERO,
     debounce_2 |-> ZERO, input_mask |-> ZERO]

(***************************************************************************)
(* Controller descriptors                                                  *)
(***************************************************************************)
\* GPIOSetProperties; a group label of set[] is its sequence of characters
Props(input, output, set) == [input |-> input, output |-> output, set |-> set]

ast2400_set_props ==
    [i \in 0 .. 6 |->
        CASE i = 0 -> Props(ONES, ONES, <<<<"A">>, <<"B">>, <<"C">>, <<"D">>>>)
          [] i = 1 -> Props(ONES, ONES, <<<<"E">>, <<"F">>, <<"G">>, <<"H">>>>)
          [] i = 2 -> Props(ONES, ONES, <<<<"I">>, <<"J">>, <<"K">>, <<"L">>>>)
          [] i = 3 -> Props(ONES, ONES, <<<<"M">>, <<"N">>, <<"O">>, <<"P">>>>)
          [] i = 4 -> Props(ONES, ONES, <<<<"Q">>, <<"R">>, <<"S">>, <<"T">>>>)
          [] i = 5 -> Props(ONES, Word(0, 65535), <<<<"U">>, <<"V">>, <<"W">>, <<"X">>>>)
          [] i = 6 -> Props(Word(0, 15), Word(4095, 65295),
                            <<<<"Y">>, <<"Z">>, <<"A", "A">>, <<"A", "B">>>>)]

ast2500_set_props ==
    [i \in 0 .. 7 |->
        CASE i = 0 -> Props(ONES, ONES, <<<<"A">>, <<"B">>, <<"C">>, <<"D">>>>)
          [] i = 1 -> Props(ONES, ONES, <<<<"E">>, <<"F">>, <<"G">>, <<"H">>>>)
          [] i = 2 -> Props(ONES, ONES, <<<<"I">>, <<"J">>, <<"K">>, <<"L">>>>)
          [] i = 3 -> Props(ONES, ONES, <<<<"M">>, <<"N">>, <<"O">>, <<"P">>>>)
          [] i = 4 -> Props(ONES, ONES, <<<<"Q">>, <<"R">>, <<"S">>, <<"T">>>>)
          [] i = 5 -> Props(ONES, Word(0, 65535), <<<<"U">>, <<"V">>, <<"W">>, <<"X">>>>)
          [] i = 6 -> Props(Word(65535, 65295), Word(4095, 65295),
                            <<<<"Y">>, <<"Z">>, <<"A", "A">>, <<"A", "B">>>>)
          [] i = 7 -> Props(Word(0, 255), Word(0, 255), <<<<"A", "C">>, <<>>, <<>>, <<>>>>)]

ast2600_set_props ==
    [i \in 0 .. 8 |->
        CASE i = 0 -> Props(ONES, ONES, <<<<"A">>, <<"B">>, <<"C">>, <<"D">>>>)
          [] i = 1 -> Props(ONES, ONES, <<<<"E">>, <<"F">>, <<"G">>, <<"H">>>>)
          [] i = 2 -> Props(ONES, ONES, <<<<"I">>, <<"J">>, <<"K">>, <<"L">>>>)
          [] i = 3 -> Props(ONES, ONES, <<<<"M">>, <<"N">>, <<"O">>, <<"P">>>>)
          [] i = 4 -> Props(ONES, ONES, <<<<"Q">>, <<"R">>, <<"S">>, <<"T">>>>)
          [] i = 5 -> Props(ONES, Word(0, 65535), <<<<"U">>, <<"V">>, <<"W">>, <<"X">>>>)
          [] i = 6 -> Props(Word(65535, 0), Word(4095, 0), <<<<"Y">>, <<"Z">>, <<>>, <<>>>>)
          [] i = 7 -> Props(Word(0, 255), Word(0, 255), <<<<"A">>, <<"B">>, <<"C">>, <<"D">>>>)
          [] i = 8 -> Props(Word(0, 255), Word(0, 255), <<<<"E">>, <<>>, <<>>, <<>>>>)]

\* AspeedGPIOController controllers[], by the suffix of .name
controllers ==
    [c \in {"ast2600", "ast2500", "ast2400"} |->
        CASE c = "ast2600" -> [props |-> ast2600_set_props, nr_gpio_pins |-> 208,
                               nr_gpio_sets |-> 7, gap |-> 0]
          [] c = "ast2500" -> [props |-> ast2500_set_props, nr_gpio_pins |-> 228,
                               nr_gpio_sets |-> 8, gap |-> 220]
          [] c = "ast2400" -> [props |-> ast2400_set_props, nr_gpio_pins |-> 216,
                               nr_gpio_sets |-> 7, gap |-> 196]]

(***************************************************************************)
(* Interrupt evaluation                                                    *)
(***************************************************************************)
\* aspeed_evaluate_irq without its rising-edge condition
aspeed_evaluate_irq_no_rising(regs, prev_value_high, bit) ==
    LET int_trigger == extract32(regs.int_sens_0, bit, 1)
                       + 2 * extract32(regs.int_sens_1, bit, 1)
                       + 4 * extract32(regs.int_sens_2, bit, 1)
        curr_pin_high == extract32(regs.data_value, bit, 1) = 1
        rising_edge == curr_pin_high /\ ~prev_value_high
        falling_edge == ~curr_pin_high /\ prev_value_high
    IN  IF \/ (int_trigger = ASPEED_FALLING_EDGE /\ falling_edge)
           \/ (int_trigger = ASPEED_LEVEL_LOW /\ ~curr_pin_high)
           \/ (int_trigger = ASPEED_LEVEL_HIGH /\ curr_pin_high)
           \/ (int_trigger >= ASPEED_DUAL_EDGE /\ (rising_edge \/ falling_edge))
        THEN [regs |-> [regs EXCEPT !.int_status =
                                        deposit32(regs.int_status, bit, 1, 1)],
              ret |-> 1]
        ELSE [regs |-> regs, ret |-> 0]

\* aspeed_evaluate_irq storing the outcome of the evaluation in the pin's bit
\* of int_status, so that an evaluation that does not fire clears the bit
aspeed_evaluate_irq_tracking(regs, prev_value_high, bit) ==
    LET int_trigger == extract32(regs.int_sens_0, bit, 1)
                       + 2 * extract32(regs.int_sens_1, bit, 1)
                       + 4 * extract32(regs.int_sens_2, bit, 1)
        curr_pin_high == extract32(regs.data_value, bit, 1) = 1
        rising_edge == curr_pin_high /\ ~prev_value_high
        falling_edge == ~curr_pin_high /\ prev_value_high
    IN  IF \/ (int_trigger = ASPEED_FALLING_EDGE /\ falling_edge)
           \/ (int_trigger = ASPEED_RISING_EDGE /\ rising_edge)
           \/ (int_trigger = ASPEED_LEVEL_LOW /\ ~curr_pin_high)
           \/ (int_trigger = ASPEED_LEVEL_HIGH /\ curr_pin_high)
           \/ (int_trigger >= ASPEED_DUAL_EDGE /\ (rising_edge \/ falling_edge))
        THEN [regs |-> [regs EXCEPT !.int_status =
                                        deposit32(regs.int_status, bit, 1, 1)],
              ret |-> 1]
        ELSE [regs |-> [regs EXCEPT !.int_status =
                                        deposit32(regs.int_status, bit, 1, 0)],
              ret |-> 0]

\* aspeed_evaluate_irq with the tests of the two level modes exchanged
aspeed_evaluate_irq_level_swapped(regs, prev_value_high, bit) ==
    LET int_trigger == extract32(regs.int_sens_0, bit, 1)
                       + 2 * extract32(regs.int_sens_1, bit, 1)
                       + 4 * extract32(regs.int_sens_2, bit, 1)
        curr_pin_high == extract32(regs.data_value, bit, 1) = 1
        rising_edge == curr_pin_high /\ ~prev_value_high
        falling_edge == ~curr_pin_high /\ prev_value_high
    IN  IF \/ (int_trigger = ASPEED_FALLING_EDGE /\ falling_edge)
           \/ (int_trigger = ASPEED_RISING_EDGE /\ rising_edge)
           \/ (int_trigger = ASPEED_LEVEL_LOW /\ curr_pin_high)
           \/ (int_trigger = ASPEED_LEVEL_HIGH /\ ~curr_pin_high)
           \/ (int_trigger >= ASPEED_DUAL_EDGE /\ (rising_edge \/ falling_edge))
        THEN [regs |-> [regs EXCEPT !.int_status =
                                        deposit32(regs.int_status, bit, 1, 1)],
              ret |-> 1]
        ELSE [regs |-> regs, ret |-> 0]

\* aspeed_evaluate_irq: the register bank after the call, and the value
\* returned
aspeed_evaluate_irq(regs, prev_value_high, bit) ==
    LET int_trigger == extract32(regs.int_sens_0, bit, 1)
                       + 2 * extract32(regs.int_sens_1, bit, 1)
                       + 4 * extract32(regs.int_sens_2, bit, 1)
        curr_pin_high == extract32(regs.data_value, bit, 1) = 1
        rising_edge == curr_pin_high /\ ~prev_value_high
        falling_edge == ~curr_pin_high /\ prev_value_high
    IN  IF \/ (int_trigger = ASPEED_FALLING_EDGE /\ falling_edge)
           \/ (int_trigger = ASPEED_RISING_EDGE /\ rising_edge)
           \/ (int_trigger = ASPEED_LEVEL_LOW /\ ~curr_pin_high)
           \/ (int_trigger = ASPEED_LEVEL_HIGH /\ curr_pin_high)
           \/ (int_trigger >= ASPEED_DUAL_EDGE /\ (rising_edge \/ falling_edge))
        THEN [regs |-> [regs EXCEPT !.int_status =
                                        deposit32(regs.int_status, bit, 1, 1)],
              ret |-> 1]
        ELSE [regs |-> regs, ret |-> 0]

\* the iteration of aspeed_gpio_update without its test of input_mask
aspeed_gpio_update_bit_unmasked(st, loc, bit) ==
    LET mask == SHL({0}, bit)
    IN  IF AND(loc.diff, mask) = ZERO THEN st
        ELSE IF AND(loc.direction, mask) = ZERO THEN st
        ELSE LET upd == IF AND(mask, loc.new) # ZERO
                        THEN [st.regs EXCEPT !.data_value = OR(@, mask)]
                        ELSE [st.regs EXCEPT !.data_value = AND(@, NOT(mask))]
                 ev == aspeed_evaluate_irq(upd, AND(loc.old, mask) # ZERO, bit)
             IN  [regs |-> ev.regs,
                  output |-> IF ev.ret # 0 THEN st.output \cup {bit}
                             ELSE st.output]

\* one iteration of the for loop of aspeed_gpio_update on st = (regs, output
\* lines); loc holds the locals input_mask, direction, old, new, diff
aspeed_gpio_update_bit(st, loc, bit) ==
    LET mask == SHL({0}, bit)
    IN  IF AND(loc.diff, mask) = ZERO THEN st
        ELSE IF AND(loc.direction, mask) = ZERO THEN st
        ELSE IF AND(loc.input_mask, mask) # ZERO THEN st
        ELSE LET upd == IF AND(mask, loc.new) # ZERO
                        THEN [st.regs EXCEPT !.data_value = OR(@, mask)]
                        ELSE [st.regs EXCEPT !.data_value = AND(@, NOT(mask))]
                 ev == aspeed_evaluate_irq(upd, AND(loc.old, mask) # ZERO, bit)
             IN  [regs |-> ev.regs,
                  output |-> IF ev.ret # 0 THEN st.output \cup {bit}
                             ELSE st.output]

RECURSIVE aspeed_gpio_update_loop(_, _, _)
aspeed_gpio_update_loop(st, loc, bit) ==
    IF bit >= ASPEED_GPIOS_PER_REG THEN st
    ELSE aspeed_gpio_update_loop(aspeed_gpio_update_bit(st, loc, bit), loc, bit + 1)

\* aspeed_gpio_update taking every pin as changed
aspeed_gpio_update_every(output, regs) ==
    LET loc == [input_mask |-> regs.input_mask, direction |-> regs.direction,
                old |-> regs.data_value, new |-> regs.data_read,
                diff |-> ONES]
        st == [regs |-> regs, output |-> output]
    IN  IF loc.direction = ZERO THEN st
        ELSE aspeed_gpio_update_loop(st, loc, 0)

\* aspeed_gpio_update(s, regs): output is the set of the lines s->output[]
\* that are raised
aspeed_gpio_update(output, regs) ==
    LET loc == [input_mask |-> regs.input_mask, direction |-> regs.direction,
                old |-> regs.data_value, new |-> regs.data_read,
                diff |-> XOR(regs.data_value, regs.data_read)]
        st == [regs |-> regs, output |-> output]
    IN  IF loc.diff = ZERO THEN st
        ELSE IF loc.direction = ZERO THEN st
        ELSE aspeed_gpio_update_loop(st, loc, 0)

(***************************************************************************)
(* Command-source arbitration                                              *)
(***************************************************************************)
\* 0xff, the mask of one group before it is shifted into place
GROUP_MASK == Word(0, 255)

RECURSIVE update_value_control_source_loop(_, _, _, _, _)
update_value_control_source_loop(regs, old_value, value, new_value, i) ==
    IF i >= ASPEED_GPIOS_PER_REG THEN new_value
    ELSE LET cmd_source == extract32(regs.cmd_source_0, i, 1)
                           + 2 * extract32(regs.cmd_source_1, i, 1)
             group == SHL(GROUP_MASK, i)
             next == IF ASPEED_SOURCE_ARM = cmd_source
                     THEN OR(new_value, AND(group, value))
                     ELSE OR(new_value, AND(group, old_value))
         IN  update_value_control_source_loop(regs, old_value, value, next, i + 8)

\* update_value_control_source taking every group from the written value
update_value_control_source_arm(regs, old_value, value) == value

\* update_value_control_source deciding for the whole word by the owner of
\* its first group
update_value_control_source_word(regs, old_value, value) ==
    IF ASPEED_SOURCE_ARM = extract32(regs.cmd_source_0, 0, 1)
                           + 2 * extract32(regs.cmd_source_1, 0, 1)
    THEN value
    ELSE old_value

update_value_control_source(regs, old_value, value) ==
    update_value_control_source_loop(regs, old_value, value, ZERO, 0)

(***************************************************************************)
(* Register getters and setters                                            *)
(***************************************************************************)
read_direction(regs) == regs.direction
read_data_value(regs) == regs.data_value
read_int_enable(regs) == regs.int_enable
read_int_sens_0(regs) == regs.int_sens_0
read_int_sens_1(regs) == regs.int_sens_1
read_int_sens_2(regs) == regs.int_sens_2
read_int_status(regs) == regs.int_status
read_reset_tol(regs) == regs.reset_tol
read_debounce_1(regs) == regs.debounce_1
read_debounce_2(regs) == regs.debounce_2
read_cmd_source_0(regs) == regs.cmd_source_0
read_cmd_source_1(regs) == regs.cmd_source_1
read_data(regs) == regs.data_read
read_input_mask(regs) == regs.input_mask

\* a setter that does not call aspeed_gpio_update leaves the lines alone
NoUpdate(output, regs) == [regs |-> regs, output |-> output]

\* _write_data_value evaluating every pin, changed or not
_write_data_value_every(output, regs, props, val) ==
    LET v == AND(val, OR(props.output, NOT(props.input)))
    IN  aspeed_gpio_update_every(output,
            [regs EXCEPT !.data_read =
                update_value_control_source(regs, regs.data_read, v)])

\* _write_data_value without its call of aspeed_gpio_update
_write_data_value_latch_only(output, regs, props, val) ==
    LET v == AND(val, OR(props.output, NOT(props.input)))
    IN  NoUpdate(output,
            [regs EXCEPT !.data_read =
                update_value_control_source(regs, regs.data_read, v)])

_write_data_value(output, regs, props, val) ==
    LET v == AND(val, OR(props.output, NOT(props.input)))
    IN  aspeed_gpio_update(output,
            [regs EXCEPT !.data_read =
                update_value_control_source(regs, regs.data_read, v)])

\* _write_direction without its call of aspeed_gpio_update
_write_direction_no_update(output, regs, props, val) ==
    LET v == AND(val, OR(props.output, NOT(props.input)))
    IN  NoUpdate(output,
            [regs EXCEPT !.direction =
                update_value_control_source(regs, regs.direction, v)])

_write_direction(output, regs, props, val) ==
    LET v == AND(val, OR(props.output, NOT(props.input)))
    IN  aspeed_gpio_update(output,
            [regs EXCEPT !.direction =
                update_value_control_source(regs, regs.direction, v)])

_write_int_enable(output, regs, props, val) ==
    aspeed_gpio_update(output,
        [regs EXCEPT !.int_enable =
            update_value_control_source(regs, regs.int_enable, val)])

_write_int_sens_0(output, regs, props, val) ==
    aspeed_gpio_update(output,
        [regs EXCEPT !.int_sens_0 =
            update_value_control_source(regs, regs.int_sens_0, val)])

_write_int_sens_1(output, regs, props, val) ==
    aspeed_gpio_update(output,
        [regs EXCEPT !.int_sens_1 =
            update_value_control_source(regs, regs.int_sens_1, val)])

_write_int_sens_2(output, regs, props, val) ==
    aspeed_gpio_update(output,
        [regs EXCEPT !.int_sens_2 =
            update_value_control_source(regs, regs.int_sens_2, val)])

\* _write_int_status clearing the bits written as 1
_write_int_status_w1c(output, regs, props, val) ==
    aspeed_gpio_update(output, [regs EXCEPT !.int_status = AND(@, NOT(val))])

_write_int_status(output, regs, props, val) ==
    aspeed_gpio_update(output, [regs EXCEPT !.int_status = val])

_write_reset_tol(output, regs, props, val) ==
    NoUpdate(output,
        [regs EXCEPT !.reset_tol =
            update_value_control_source(regs, regs.reset_tol, val)])

_write_debounce_1(output, regs, props, val) ==
    NoUpdate(output,
        [regs EXCEPT !.debounce_1 =
            update_value_control_source(regs, regs.debounce_1, val)])

_write_debounce_2(output, regs, props, val) ==
    NoUpdate(output,
        [regs EXCEPT !.debounce_2 =
            update_value_control_source(regs, regs.debounce_2, val)])

\* _write_cmd_source_0 passing through the arbitration as the guarded
\* registers do
_write_cmd_source_0_arbitrated(output, regs, props, val) ==
    NoUpdate(output,
             [regs EXCEPT !.cmd_source_0 =
                 update_value_control_source(regs, regs.cmd_source_0,
                                             AND(val, ASPEED_CMD_SRC_MASK))])

_write_cmd_source_0(output, regs, props, val) ==
    NoUpdate(output, [regs EXCEPT !.cmd_source_0 = AND(val, ASPEED_CMD_SRC_MASK)])

_write_cmd_source_1(output, regs, props, val) ==
    NoUpdate(output, [regs EXCEPT !.cmd_source_1 = AND(val, ASPEED_CMD_SRC_MASK)])

_write_input_mask(output, regs, props, val) ==
    aspeed_gpio_update(output, [regs EXCEPT !.input_mask = AND(val, props.input)])

(***************************************************************************)
(* Pin addressing and the per-pin properties                               *)
(***************************************************************************)
\* aspeed_adjust_pin moving the pins from the gap on down instead of up
aspeed_adjust_pin_down(c, p) ==
    IF controllers[c].gap # 0 /\ p >= controllers[c].gap THEN p - 4 ELSE p

aspeed_adjust_pin(c, p) ==
    IF controllers[c].gap # 0 /\ p >= controllers[c].gap THEN p + 4 ELSE p

aspeed_get_set_idx_from_pin(c, p) == aspeed_adjust_pin(c, p) \div 32

\* the characters "%d" formats a digit as and sscanf parses one from
DigitChars == <<"0", "1", "2", "3", "4", "5", "6", "7", "8", "9">>

\* the locals of one iteration of the loop of aspeed_gpio_init, and the name
\* g_strdup_printf("gpio%s%d", ...) builds, as its sequence of characters
aspeed_gpio_init_pin(c, p) ==
    LET set_idx == aspeed_get_set_idx_from_pin(c, p)
        _pin == aspeed_adjust_pin(c, p)
        pin_idx == _pin - (set_idx * 32)
        group_idx == pin_idx \div 8
    IN  [pin |-> p, set_idx |-> set_idx, pin_idx |-> pin_idx,
         name |-> <<"g", "p", "i", "o">>
                  \o controllers[c].props[set_idx].set[group_idx + 1]
                  \o <<DigitChars[(pin_idx % 8) + 1]>>]

UpperCase ==
    {"A", "B", "C", "D", "E", "F", "G", "H", "I", "J", "K", "L", "M", "N",
     "O", "P", "Q", "R", "S", "T", "U", "V", "W", "X", "Y", "Z"}

\* sscanf(name, "gpio%2[A-Z]%1d", group, &pin): the pin it stores when it
\* returns 2, and -1 when it returns anything else
sscanf_pin(name) ==
    IF \/ Len(name) < 5
       \/ SubSeq(name, 1, 4) # <<"g", "p", "i", "o">>
       \/ name[5] \notin UpperCase
    THEN -1
    ELSE LET k == IF Len(name) >= 6 /\ name[6] \in UpperCase THEN 7 ELSE 6
         IN  IF Len(name) >= k /\ \E d \in 0 .. 9 : DigitChars[d + 1] = name[k]
             THEN CHOOSE d \in 0 .. 9 : DigitChars[d + 1] = name[k]
             ELSE -1

aspeed_gpio_get_pin_level(c, banks, p) ==
    LET mask == SHL({0}, p)
        set_idx == aspeed_get_set_idx_from_pin(c, p)
    IN  AND(banks[set_idx].data_value, mask) # ZERO

\* aspeed_gpio_set_pin_level: the banks and the lines after the call
aspeed_gpio_set_pin_level(c, banks, lines, p, level) ==
    LET mask == SHL({0}, p)
        set_idx == aspeed_get_set_idx_from_pin(c, p)
        regs == IF level
                THEN [banks[set_idx] EXCEPT !.data_read = OR(@, mask)]
                ELSE [banks[set_idx] EXCEPT !.data_read = AND(@, LNOT(mask))]
        upd == aspeed_gpio_update(lines, regs)
    IN  [sets |-> [banks EXCEPT ![set_idx] = upd.regs], output |-> upd.output]

(***************************************************************************)
(* PHB3 MSI reject bit array (hw/pci-host/pnv_phb3_msi.c).  msi->rba[] is  *)
(* an array of 64-bit words, each the set of the positions of its 1 bits   *)
(* (a subset of 0..63); msi->rba_sum is a 32-bit word with one bit per     *)
(* word of the array.                                                      *)
(***************************************************************************)
\* phb3_msi_resend: for (i = 0; i < 32; i++) and for (j = 0; j < 64; j++)
RbaWords == 32
RbaBits == 64

\* one reject bit per source
PHB3_MAX_MSI == RbaWords * RbaBits

RbaIdx == 0 .. (RbaWords - 1)

\* phb3_msi_reset: memset(msi->rba, 0, sizeof(msi->rba)); msi->rba_sum = 0
phb3_msi_reset == [rba |-> [i \in RbaIdx |-> {}], rba_sum |-> ZERO]

\* a 64-bit value converted to unsigned int: the low 32 bits
Trunc32(w) == w \cap BitPos

\* phb3_msi_reject, for srcno = nr - ics->offset below PHB3_MAX_MSI:
\* unsigned int bit = 1ull << (srcno & 0x3f) keeps the low 32 bits of the
\* shifted value, which is 0 for a shift of 32 or more
phb3_msi_reject(msi, srcno) ==
    LET idx == srcno \div 64
        bit == Trunc32({srcno % 64})
    IN  [rba     |-> [msi.rba EXCEPT ![idx] = @ \cup bit],
         rba_sum |-> OR(msi.rba_sum, {idx})]

\* phb3_msi_try_send(msi, srcno, true), as the call it is: the entry it
\* reads and the P and Q bits it writes are in guest memory, and with force
\* set it does not look at them (pq = 0)
phb3_msi_try_send(calls, srcno) == Append(calls, srcno)

\* phb3_msi_resend, the loop over j for the word i.  msi->rba[i] &=
\* ~(1u << j) is an and with a 32-bit mask extended with zeroes: it clears
\* bit j and the whole upper half of the word.  For j >= 32 the shift is
\* undefined: ub is set, and the word is what a shift count taken modulo 32
\* leaves
RECURSIVE phb3_msi_resend_word(_, _, _, _, _)
phb3_msi_resend_word(word, i, j, calls, ub) ==
    IF j = RbaBits THEN [word |-> word, calls |-> calls, ub |-> ub]
    ELSE IF j \notin word
         THEN phb3_msi_resend_word(word, i, j + 1, calls, ub)
         ELSE phb3_msi_resend_word(Trunc32(word) \ {j % 32}, i, j + 1,
                                   phb3_msi_try_send(calls, i * 64 + j),
                                   ub \/ j >= 32)

\* phb3_msi_resend, the loop over i
RECURSIVE phb3_msi_resend_loop(_, _, _, _)
phb3_msi_resend_loop(msi, i, calls, ub) ==
    IF i = RbaWords THEN [rba |-> msi.rba, rba_sum |-> msi.rba_sum,
                          calls |-> calls, ub |-> ub]
    ELSE IF i \notin msi.rba_sum
         THEN phb3_msi_resend_loop(msi, i + 1, calls, ub)
         ELSE LET w == phb3_msi_resend_word(msi.rba[i], i, 0, calls, ub)
              IN  phb3_msi_resend_loop(
                      [rba     |-> [msi.rba EXCEPT ![i] = w.word],
                       rba_sum |-> AND(msi.rba_sum, NOT({i}))],
                      i + 1, w.calls, w.ub)

\* phb3_msi_resend
phb3_msi_resend(msi) ==
    IF msi.rba_sum = ZERO
    THEN [rba |-> msi.rba, rba_sum |-> msi.rba_sum, calls |-> <<>>,
          ub |-> FALSE]
    ELSE phb3_msi_resend_loop(msi, 0, <<>>, FALSE)

(***************************************************************************)
(* EFM32HG LEUART (hw/char/efm32hg_leuart.c).  s->reg[] is indexed by the  *)
(* byte offset of the register.                                            *)
(***************************************************************************)
LEUART_CMD == 4
LEUART_STATUS == 8
LEUART_RXDATA == 28
LEUART_TXDATA == 40

\* the registers of s->reg[] that the handlers below touch
LeuartRegs == {LEUART_CMD, LEUART_STATUS, LEUART_RXDATA}

\* BIT(n)
BIT(n) == {n}

\* efm32hg_leuart_reset: the registers are zeroed, then STATUS = 0x10
efm32hg_leuart_reset ==
    [r \in LeuartRegs |-> IF r = LEUART_STATUS THEN Word(0, 16) ELSE ZERO]

\* efm32hg_leuart_can_receive: !!(s->reg[LEUART_STATUS] & BIT(5))
efm32hg_leuart_can_receive(reg) ==
    IF AND(reg[LEUART_STATUS], BIT(5)) # ZERO THEN 1 ELSE 0

\* efm32hg_leuart_receive of the byte *buf: dropped when STATUS bit 5 is
\* set, else stored in RXDATA and STATUS bit 5 set
efm32hg_leuart_receive(reg, buf) ==
    IF AND(reg[LEUART_STATUS], BIT(5)) # ZERO
    THEN [reg |-> reg, dropped |-> TRUE]
    ELSE [reg |-> [reg EXCEPT ![LEUART_RXDATA] = buf,
                              ![LEUART_STATUS] = OR(@, BIT(5))],
          dropped |-> FALSE]

\* efm32hg_leuart_read: RXDATA returns its low byte and is zeroed, STATUS
\* and CMD return the register, every other offset returns 0
efm32hg_leuart_read(reg, offset) ==
    CASE offset = LEUART_RXDATA ->
           [reg |-> [reg EXCEPT ![LEUART_RXDATA] = ZERO],
            ret |-> AND(reg[LEUART_RXDATA], WordFrom(255, 0))]
      [] offset \in {LEUART_STATUS, LEUART_CMD} ->
           [reg |-> reg, ret |-> reg[offset]]
      [] OTHER -> [reg |-> reg, ret |-> ZERO]

\* efm32hg_leuart_write: TXDATA sends the byte and sets STATUS bit 4; CMD
\* sets or clears STATUS bits 0 and 1 and then, with no break, is stored
\* like STATUS and RXDATA, which take the written value
efm32hg_leuart_write(reg, offset, value) ==
    LET rxen  == IF AND(value, BIT(0)) # ZERO
                 THEN [reg EXCEPT ![LEUART_STATUS] = OR(@, BIT(0))] ELSE reg
        rxdis == IF AND(value, BIT(1)) # ZERO
                 THEN [rxen EXCEPT ![LEUART_STATUS] = AND(@, NOT(BIT(0)))]
                 ELSE rxen
        txen  == IF AND(value, BIT(2)) # ZERO
                 THEN [rxdis EXCEPT ![LEUART_STATUS] = OR(@, BIT(1))]
                 ELSE rxdis
        txdis == IF AND(value, BIT(3)) # ZERO
                 THEN [txen EXCEPT ![LEUART_STATUS] = AND(@, NOT(BIT(1)))]
                 ELSE txen
    IN  CASE offset = LEUART_TXDATA ->
               [reg EXCEPT ![LEUART_STATUS] = OR(@, BIT(4))]
          [] offset = LEUART_CMD -> [txdis EXCEPT ![LEUART_CMD] = value]
          [] offset \in {LEUART_STATUS, LEUART_RXDATA} ->
               [reg EXCEPT ![offset] = value]
          [] OTHER -> reg

(***************************************************************************)
(* State                                                                   *)
(***************************************************************************)
VARIABLES
    ctrl,      \* the controller descriptor the instance was created with
    sets,      \* s->sets[ASPEED_GPIO_MAX_NR_SETS]
    output,    \* the lines s->output[] that have been raised
    irq,       \* the level of s->irq
    ret,       \* what the last read or property get returned
    fault,     \* the table was indexed outside its entries
    e2e,       \* progress of the rising-edge scenario since reset
    sel,       \* the bank the register-level operations act on
    pin,       \* aspeed_gpio_init: the loop counter
    objprops,  \* aspeed_gpio_init: the properties added so far
    rba,       \* PHB3 MSI: msi->rba[]
    rba_sum,   \* PHB3 MSI: msi->rba_sum
    rejected,  \* PHB3 MSI: the sources rejected since the last resend
    resent,    \* PHB3 MSI: what the last resend was asked and what it did
    s_reg,     \* LEUART: s->reg[]
    dropped,   \* LEUART: the last byte delivered was dropped
    rxret      \* LEUART: what the last read returned

\* the state of the PHB3 MSI source and of the LEUART
msi_vars == <<rba, rba_sum, rejected, resent>>
leuart_vars == <<s_reg, dropped, rxret>>
peers == <<msi_vars, leuart_vars>>

\* the state of the GPIO controller
gpio_vars == <<ctrl, sets, output, irq, ret, fault, e2e, sel, pin, objprops>>

vars == <<gpio_vars, peers>>

\* phb3_msi_reset and efm32hg_leuart_reset
PeersInit ==
    /\ rba = phb3_msi_reset.rba
    /\ rba_sum = phb3_msi_reset.rba_sum
    /\ rejected = {}
    /\ resent = [rejected |-> {}, calls |-> <<>>]
    /\ s_reg = efm32hg_leuart_reset
    /\ dropped = FALSE
    /\ rxret = ZERO

Controllers == DOMAIN controllers

SetIdx == 0 .. (ASPEED_GPIO_MAX_NR_SETS - 1)

\* aspeed_gpio_reset
ResetSets == [i \in SetIdx |-> GPIORegs]

(***************************************************************************)
(* The register file under its setters (the calls aspeed_gpio_write makes  *)
(* through the table: gpios[].set(s, &s->sets[set_idx], props, data & mask)*)
(* and the property setter), on one bank of one controller                 *)
(***************************************************************************)
\* the pins the written values exercise: one that exists as input and as
\* output, and one that exists as input only
ProbeBit == 3
InputOnlyBit == 19

\* the (controller, bank, pin of the bank) the register-level specification
\* drives
RegsFocus ==
    {[c |-> "ast2600", set |-> 0, bit |-> ProbeBit],
     [c |-> "ast2600", set |-> 5, bit |-> InputOnlyBit]}

\* the call through the function pointer gpios[].set
CallSet(name, lines, regs, props, val) ==
    CASE name = "_write_data_value" -> _write_data_value(lines, regs, props, val)
      [] name = "_write_direction" -> _write_direction(lines, regs, props, val)
      [] name = "_write_int_enable" -> _write_int_enable(lines, regs, props, val)
      [] name = "_write_int_sens_0" -> _write_int_sens_0(lines, regs, props, val)
      [] name = "_write_int_sens_1" -> _write_int_sens_1(lines, regs, props, val)
      [] name = "_write_int_sens_2" -> _write_int_sens_2(lines, regs, props, val)
      [] name = "_write_int_status" -> _write_int_status(lines, regs, props, val)
      [] name = "_write_reset_tol" -> _write_reset_tol(lines, regs, props, val)
      [] name = "_write_debounce_1" -> _write_debounce_1(lines, regs, props, val)
      [] name = "_write_debounce_2" -> _write_debounce_2(lines, regs, props, val)
      [] name = "_write_cmd_source_0" -> _write_cmd_source_0(lines, regs, props, val)
      [] name = "_write_cmd_source_1" -> _write_cmd_source_1(lines, regs, props, val)
      [] name = "_write_input_mask" -> _write_input_mask(lines, regs, props, val)

\* the call through the function pointer gpios[].get
CallGet(name, regs) ==
    CASE name = "read_data_value" -> read_data_value(regs)
      [] name = "read_direction" -> read_direction(regs)
      [] name = "read_int_enable" -> read_int_enable(regs)
      [] name = "read_int_sens_0" -> read_int_sens_0(regs)
      [] name = "read_int_sens_1" -> read_int_sens_1(regs)
      [] name = "read_int_sens_2" -> read_int_sens_2(regs)
      [] name = "read_int_status" -> read_int_status(regs)
      [] name = "read_reset_tol" -> read_reset_tol(regs)
      [] name = "read_debounce_1" -> read_debounce_1(regs)
      [] name = "read_debounce_2" -> read_debounce_2(regs)
      [] name = "read_cmd_source_0" -> read_cmd_source_0(regs)
      [] name = "read_cmd_source_1" -> read_cmd_source_1(regs)
      [] name = "read_data" -> read_data(regs)
      [] name = "read_input_mask" -> read_input_mask(regs)

\* the bits aspeed_gpio_write lets through for a bank: props->input |
\* props->output
LegalBits(c, set_idx) ==
    OR(controllers[c].props[set_idx].input, controllers[c].props[set_idx].output)

InitCommon ==
    /\ PeersInit
    /\ sets = ResetSets
    /\ output = {}
    /\ irq = FALSE
    /\ ret = ZERO
    /\ fault = FALSE
    /\ e2e = 0
    /\ objprops = {}

RegsInit ==
    /\ InitCommon
    /\ \E f \in RegsFocus : ctrl = f.c /\ sel = f.set
    /\ pin = controllers[ctrl].nr_gpio_pins

\* the probed pin of the selected bank, the values written to the per-pin
\* registers, and those written to the per-group command-source registers
\* (the base bit of the probed pin's group)
Probe == (CHOOSE f \in RegsFocus : f.c = ctrl /\ f.set = sel).bit
Vals == {ZERO, {Probe}}
CmdVals == {ZERO, {8 * (Probe \div 8)}}

\* gpios[].set(s, &s->sets[sel], &s->ctrl->props[sel], data & mask): the
\* bank and the lines after the call, and the call as an operation
WriteResult(name, data) ==
    CallSet(name, output, sets[sel], controllers[ctrl].props[sel],
            AND(data, LegalBits(ctrl, sel)))

RegWrite(name, data) ==
    \E r \in {WriteResult(name, data)} :
        /\ sets' = [sets EXCEPT ![sel] = r.regs]
        /\ output' = r.output
        /\ UNCHANGED <<peers, ctrl, irq, ret, fault, e2e, sel, pin, objprops>>

WriteDataValue == \E data \in Vals : RegWrite("_write_data_value", data)
WriteDirection == \E data \in Vals : RegWrite("_write_direction", data)
WriteIntEnable == \E data \in Vals : RegWrite("_write_int_enable", data)
WriteIntSens0 == \E data \in Vals : RegWrite("_write_int_sens_0", data)
WriteIntSens1 == \E data \in Vals : RegWrite("_write_int_sens_1", data)
WriteIntSens2 == \E data \in Vals : RegWrite("_write_int_sens_2", data)
WriteIntStatus == \E data \in Vals : RegWrite("_write_int_status", data)
WriteResetTol == \E data \in Vals : RegWrite("_write_reset_tol", data)
WriteDebounce1 == \E data \in Vals : RegWrite("_write_debounce_1", data)
WriteDebounce2 == \E data \in Vals : RegWrite("_write_debounce_2", data)
WriteCmdSource0 == \E data \in CmdVals : RegWrite("_write_cmd_source_0", data)
WriteCmdSource1 == \E data \in CmdVals : RegWrite("_write_cmd_source_1", data)
WriteInputMask == \E data \in Vals : RegWrite("_write_input_mask", data)

\* the names of the properties the model sets and gets: those of these pins
\* (gpioA3, gpioB3 and gpioE3)
ProbePins == {ProbeBit, 8 + ProbeBit, 32 + ProbeBit}

\* aspeed_gpio_set_pin(name, level): the property setter
aspeed_gpio_set_pin(name, level) ==
    \E parsed \in {sscanf_pin(name)} :
        /\ IF parsed = -1
           THEN UNCHANGED <<sets, output>>
           ELSE \E r \in {aspeed_gpio_set_pin_level(ctrl, sets, output,
                                                    parsed, level)} :
                    sets' = r.sets /\ output' = r.output
        /\ e2e' = 0
        /\ UNCHANGED <<peers, ctrl, irq, ret, fault, sel, pin, objprops>>

\* a board sets a pin through the property aspeed_gpio_init added for it
SetPin ==
    /\ ~fault
    /\ \E p \in ProbePins, level \in BOOLEAN :
           aspeed_gpio_set_pin(aspeed_gpio_init_pin(ctrl, p).name, level)

\* aspeed_gpio_reset sparing reset_tol
Reset_tolerant ==
    /\ ~fault
    /\ sets' = [i \in SetIdx |->
                   [GPIORegs EXCEPT !.reset_tol = sets[i].reset_tol]]
    /\ e2e' = 0
    /\ UNCHANGED <<peers, ctrl, output, irq, ret, fault, sel, pin, objprops>>

\* aspeed_gpio_reset
Reset ==
    /\ ~fault
    /\ sets' = ResetSets
    /\ e2e' = 0
    /\ UNCHANGED <<peers, ctrl, output, irq, ret, fault, sel, pin, objprops>>

\* the operations other than the device reset
RegsOperation ==
    \/ WriteDataValue \/ WriteDirection \/ WriteIntEnable
    \/ WriteIntSens0 \/ WriteIntSens1 \/ WriteIntSens2
    \/ WriteIntStatus \/ WriteResetTol \/ WriteDebounce1 \/ WriteDebounce2
    \/ WriteCmdSource0 \/ WriteCmdSource1 \/ WriteInputMask
    \/ SetPin

RegsNext == RegsOperation \/ Reset

SpecRegs == RegsInit /\ [][RegsNext]_vars

(***************************************************************************)
(* The bus interface: the register table and the MMIO handlers             *)
(***************************************************************************)
\* #define GPIO_REG_ARRAY_SIZE 0x3d8/4
GPIO_REG_ARRAY_SIZE == 246

\* the designated initializers of gpios[]: <<index, set_idx, get, set>>, the
\* index being the register's byte offset >> 2, the 1.8V registers' being
\* (byte offset - 0x600) >> 2; set_idx is a uint16_t, so that -1 is 65535
GpioEntries ==
    {
      <<0, 0, "read_data_value", "_write_data_value">>, <<1, 0, "read_direction", "_write_direction">>,
      <<2, 0, "read_int_enable", "_write_int_enable">>, <<3, 0, "read_int_sens_0", "_write_int_sens_0">>,
      <<4, 0, "read_int_sens_1", "_write_int_sens_1">>, <<5, 0, "read_int_sens_2", "_write_int_sens_2">>,
      <<6, 0, "read_int_status", "_write_int_status">>, <<7, 0, "read_reset_tol", "_write_reset_tol">>,
      <<8, 1, "read_data_value", "_write_data_value">>, <<9, 1, "read_direction", "_write_direction">>,
      <<10, 1, "read_int_enable", "_write_int_enable">>, <<11, 1, "read_int_sens_0", "_write_int_sens_0">>,
      <<12, 1, "read_int_sens_1", "_write_int_sens_1">>, <<13, 1, "read_int_sens_2", "_write_int_sens_2">>,
      <<14, 1, "read_int_status", "_write_int_status">>, <<15, 1, "read_reset_tol", "_write_reset_tol">>,
      <<16, 0, "read_debounce_1", "_write_debounce_1">>, <<17, 0, "read_debounce_2", "_write_debounce_2">>,
      <<18, 1, "read_debounce_1", "_write_debounce_1">>, <<19, 1, "read_debounce_2", "_write_debounce_2">>,
      <<20, 65535, "NULL", "NULL">>, <<24, 0, "read_cmd_source_0", "_write_cmd_source_0">>,
      <<25, 0, "read_cmd_source_1", "_write_cmd_source_1">>, <<26, 1, "read_cmd_source_0", "_write_cmd_source_0">>,
      <<27, 1, "read_cmd_source_1", "_write_cmd_source_1">>, <<28, 2, "read_data_value", "_write_data_value">>,
      <<29, 2, "read_direction", "_write_direction">>, <<30, 3, "read_data_value", "_write_data_value">>,
      <<31, 3, "read_direction", "_write_direction">>, <<32, 4, "read_data_value", "_write_data_value">>,
      <<33, 4, "read_direction", "_write_direction">>, <<34, 5, "read_data_value", "_write_data_value">>,
      <<35, 5, "read_direction", "_write_direction">>, <<36, 2, "read_cmd_source_0", "_write_cmd_source_0">>,
      <<37, 2, "read_cmd_source_1", "_write_cmd_source_1">>, <<38, 2, "read_int_enable", "_write_int_enable">>,
      <<39, 2, "read_int_sens_0", "_write_int_sens_0">>, <<40, 2, "read_int_sens_1", "_write_int_sens_1">>,
      <<41, 2, "read_int_sens_2", "_write_int_sens_2">>, <<42, 2, "read_int_status", "_write_int_status">>,
      <<43, 2, "read_reset_tol", "_write_reset_tol">>, <<44, 2, "read_debounce_1", "_write_debounce_1">>,
      <<45, 2, "read_debounce_2", "_write_debounce_2">>, <<46, 2, "read_input_mask", "_write_input_mask">>,
      <<48, 0, "read_data", "NULL">>, <<49, 1, "read_data", "NULL">>,
      <<50, 2, "read_data", "NULL">>, <<51, 3, "read_data", "NULL">>,
      <<52, 4, "read_data", "NULL">>, <<53, 5, "read_data", "NULL">>,
      <<54, 6, "read_data", "NULL">>, <<55, 7, "read_data", "NULL">>,
      <<56, 3, "read_cmd_source_0", "_write_cmd_source_0">>, <<57, 3, "read_cmd_source_1", "_write_cmd_source_1">>,
      <<58, 3, "read_int_enable", "_write_int_enable">>, <<59, 3, "read_int_sens_0", "_write_int_sens_0">>,
      <<60, 3, "read_int_sens_1", "_write_int_sens_1">>, <<61, 3, "read_int_sens_2", "_write_int_sens_2">>,
      <<62, 3, "read_int_status", "_write_int_status">>, <<63, 3, "read_reset_tol", "_write_reset_tol">>,
      <<64, 3, "read_debounce_1", "_write_debounce_1">>, <<65, 3, "read_debounce_2", "_write_debounce_2">>,
      <<66, 3, "read_input_mask", "_write_input_mask">>, <<68, 4, "read_cmd_source_0", "_write_cmd_source_0">>,
      <<69, 4, "read_cmd_source_1", "_write_cmd_source_1">>, <<70, 4, "read_int_enable", "_write_int_enable">>,
      <<71, 4, "read_int_sens_0", "_write_int_sens_0">>, <<72, 4, "read_int_sens_1", "_write_int_sens_1">>,
      <<73, 4, "read_int_sens_2", "_write_int_sens_2">>, <<74, 4, "read_int_status", "_write_int_status">>,
      <<75, 4, "read_reset_tol", "_write_reset_tol">>, <<76, 4, "read_debounce_1", "_write_debounce_1">>,
      <<77, 4, "read_debounce_2", "_write_debounce_2">>, <<78, 4, "read_input_mask", "_write_input_mask">>,
      <<80, 5, "read_cmd_source_0", "_write_cmd_source_0">>, <<81, 5, "read_cmd_source_1", "_write_cmd_source_1">>,
      <<82, 5, "read_int_enable", "_write_int_enable">>, <<83, 5, "read_int_sens_0", "_write_int_sens_0">>,
      <<84, 5, "read_int_sens_1", "_write_int_sens_1">>, <<85, 5, "read_int_sens_2", "_write_int_sens_2">>,
      <<86, 5, "read_int_status", "_write_int_status">>, <<87, 5, "read_reset_tol", "_write_reset_tol">>,
      <<88, 5, "read_debounce_1", "_write_debounce_1">>, <<89, 5, "read_debounce_2", "_write_debounce_2">>,
      <<90, 5, "read_input_mask", "_write_input_mask">>, <<92, 6, "read_cmd_source_0", "_write_cmd_source_0">>,
      <<93, 6, "read_cmd_source_1", "_write_cmd_source_1">>, <<94, 6, "read_int_enable", "_write_int_enable">>,
      <<95, 6, "read_int_sens_0", "_write_int_sens_0">>, <<96, 6, "read_int_sens_1", "_write_int_sens_1">>,
      <<97, 6, "read_int_sens_2", "_write_int_sens_2">>, <<98, 6, "read_int_status", "_write_int_status">>,
      <<99, 6, "read_reset_tol", "_write_reset_tol">>, <<100, 6, "read_debounce_1", "_write_debounce_1">>,
      <<101, 6, "read_debounce_2", "_write_debounce_2">>, <<102, 6, "read_input_mask", "_write_input_mask">>,
      <<104, 7, "read_cmd_source_0", "_write_cmd_source_0">>, <<105, 7, "read_cmd_source_1", "_write_cmd_source_1">>,
      <<106, 7, "read_int_enable", "_write_int_enable">>, <<107, 7, "read_int_sens_0", "_write_int_sens_0">>,
      <<108, 7, "read_int_sens_1", "_write_int_sens_1">>, <<109, 7, "read_int_sens_2", "_write_int_sens_2">>,
      <<110, 7, "read_int_status", "_write_int_status">>, <<111, 7, "read_reset_tol", "_write_reset_tol">>,
      <<112, 7, "read_debounce_1", "_write_debounce_1">>, <<113, 7, "read_debounce_2", "_write_debounce_2">>,
      <<114, 7, "read_input_mask", "_write_input_mask">>, <<116, 0, "read_input_mask", "_write_input_mask">>,
      <<117, 1, "read_input_mask", "_write_input_mask">>, <<120, 6, "read_data_value", "_write_data_value">>,
      <<121, 6, "read_direction", "_write_direction">>, <<122, 7, "read_data_value", "_write_data_value">>,
      <<123, 7, "read_direction", "_write_direction">>, <<128, 0, "read_data_value", "_write_data_value">>,
      <<129, 0, "read_direction", "_write_direction">>, <<130, 0, "read_int_enable", "_write_int_enable">>,
      <<131, 0, "read_int_sens_0", "_write_int_sens_0">>, <<132, 0, "read_int_sens_1", "_write_int_sens_1">>,
      <<133, 0, "read_int_sens_2", "_write_int_sens_2">>, <<134, 0, "read_int_status", "_write_int_status">>,
      <<135, 0, "read_reset_tol", "_write_reset_tol">>, <<136, 1, "read_data_value", "_write_data_value">>,
      <<137, 1, "read_direction", "_write_direction">>, <<138, 1, "read_int_enable", "_write_int_enable">>,
      <<139, 1, "read_int_sens_0", "_write_int_sens_0">>, <<140, 1, "read_int_sens_1", "_write_int_sens_1">>,
      <<141, 1, "read_int_sens_2", "_write_int_sens_2">>, <<142, 1, "read_int_status", "_write_int_status">>,
      <<143, 1, "read_reset_tol", "_write_reset_tol">>, <<144, 0, "read_debounce_1", "_write_debounce_1">>,
      <<145, 0, "read_debounce_2", "_write_debounce_2">>, <<146, 1, "read_debounce_1", "_write_debounce_1">>,
      <<147, 1, "read_debounce_2", "_write_debounce_2">>, <<152, 0, "read_cmd_source_0", "_write_cmd_source_0">>,
      <<153, 0, "read_cmd_source_1", "_write_cmd_source_1">>, <<154, 1, "read_cmd_source_0", "_write_cmd_source_0">>,
      <<155, 1, "read_cmd_source_1", "_write_cmd_source_1">>, <<176, 0, "read_data", "NULL">>,
      <<177, 1, "read_data", "NULL">>, <<244, 0, "read_input_mask", "_write_input_mask">>,
      <<245, 1, "read_input_mask", "_write_input_mask">>
    }

\* static const struct AspeedGPIO gpios[GPIO_REG_ARRAY_SIZE]: the entries
\* without an initializer are zero
gpios ==
    [i \in 0 .. (GPIO_REG_ARRAY_SIZE - 1) |->
        IF \E e \in GpioEntries : e[1] = i
        THEN LET e == CHOOSE x \in GpioEntries : x[1] = i
             IN  [set_idx |-> e[2], get |-> e[3], set |-> e[4]]
        ELSE [set_idx |-> 0, get |-> "NULL", set |-> "NULL"]]

\* aspeed_offset_to_idx: 0x800 is 2048, 0x9D8 is 2520, and the 600 is decimal
aspeed_offset_to_idx(offset) ==
    IF offset > GPIO_REG_ARRAY_SIZE
    THEN IF offset >= 2048 /\ offset < 2520
         THEN (offset - 600) \div 4
         ELSE -1
    ELSE offset \div 4

\* aspeed_gpio_read: the value returned; ub when gpios[offset] is read
\* outside the table
aspeed_gpio_read(banks, offset, size) ==
    IF size # 4 THEN [ub |-> FALSE, val |-> ZERO]
    ELSE IF aspeed_offset_to_idx(offset) = -1 THEN [ub |-> FALSE, val |-> ZERO]
    ELSE IF offset \notin DOMAIN gpios THEN [ub |-> TRUE, val |-> ZERO]
    ELSE IF gpios[offset].get = "NULL" THEN [ub |-> FALSE, val |-> ZERO]
    ELSE [ub |-> FALSE,
          val |-> CallGet(gpios[offset].get, banks[gpios[offset].set_idx])]

\* aspeed_gpio_write handing data, not data & mask, to the setter
aspeed_gpio_write_unmasked(c, banks, lines, offset, data, size) ==
    IF offset \notin DOMAIN gpios
    THEN [ub |-> TRUE, sets |-> banks, output |-> lines]
    ELSE IF aspeed_offset_to_idx(offset) = -1 \/ gpios[offset].set = "NULL"
    THEN [ub |-> FALSE, sets |-> banks, output |-> lines]
    ELSE IF gpios[offset].set_idx \notin DOMAIN controllers[c].props
    THEN [ub |-> TRUE, sets |-> banks, output |-> lines]
    ELSE LET set_idx == gpios[offset].set_idx
             props == controllers[c].props[set_idx]
             r == CallSet(gpios[offset].set, lines, banks[set_idx], props,
                          data)
         IN  [ub |-> FALSE, sets |-> [banks EXCEPT ![set_idx] = r.regs],
              output |-> r.output]

\* aspeed_gpio_write: the banks and the lines after the call; ub when
\* gpios[offset] is read outside the table (which the initializer of props
\* does before the offset is looked at) or props[] outside the descriptor
aspeed_gpio_write(c, banks, lines, offset, data, size) ==
    IF offset \notin DOMAIN gpios
    THEN [ub |-> TRUE, sets |-> banks, output |-> lines]
    ELSE IF aspeed_offset_to_idx(offset) = -1 \/ gpios[offset].set = "NULL"
    THEN [ub |-> FALSE, sets |-> banks, output |-> lines]
    ELSE IF gpios[offset].set_idx \notin DOMAIN controllers[c].props
    THEN [ub |-> TRUE, sets |-> banks, output |-> lines]
    ELSE LET set_idx == gpios[offset].set_idx
             props == controllers[c].props[set_idx]
             mask == OR(props.input, props.output)
             r == CallSet(gpios[offset].set, lines, banks[set_idx], props,
                          AND(data, mask))
         IN  [ub |-> FALSE, sets |-> [banks EXCEPT ![set_idx] = r.regs],
              output |-> r.output]

\* the byte offsets the guest accesses: the registers of bank ABCD and their
\* neighbours, a slot of bank 6 (0x060) and one of bank 7 (0x06C), the
\* index of a 1.8V entry (0x084), GPIO_ABCD_DATA_READ (0x0C0), and offsets
\* past the table; the memory core
\* delivers aligned 4-byte accesses only (.valid.min_access_size =
\* .valid.max_access_size = 4); the values written are 0, pin 3, and pins 3
\* and 19 (of which bank 6 of the ast2600 has 19 only, its bank 7 3 only)
Offsets == {0, 4, 8, 12, 16, 20, 24, 96, 108, 132, 192, 248, 2048}
AccessSizes == {4}
BusVals == {ZERO, {ProbeBit}, {ProbeBit, InputOnlyBit}}

\* the 32-bit writes of the rising-edge scenario on bank ABCD, in order:
\* direction (0x004), int_sens_0/1/2 (0x00C, 0x010, 0x014), data value with
\* the pin at 0 and then at 1 (0x000)
Scenario ==
    <<<<4, {ProbeBit}>>, <<12, {ProbeBit}>>, <<16, ZERO>>, <<20, ZERO>>,
      <<0, ZERO>>, <<0, {ProbeBit}>>>>

\* the number of writes of the scenario made, in order and with nothing
\* else written in between, since the registers were in their reset state
Follow(offset, data) ==
    IF /\ e2e < Len(Scenario)
       /\ Scenario[e2e + 1] = <<offset, data>>
       /\ e2e = 0 => sets = ResetSets
    THEN e2e + 1
    ELSE 0

Init ==
    /\ InitCommon
    /\ ctrl \in Controllers
    /\ sel = 0
    /\ pin = controllers[ctrl].nr_gpio_pins

\* a guest store: the undefined behaviour either goes unnoticed or ends the
\* process
BusWrite ==
    /\ ~fault
    /\ \E offset \in Offsets, data \in BusVals, size \in AccessSizes :
        \E r \in {aspeed_gpio_write(ctrl, sets, output, offset, data, size)} :
            /\ sets' = r.sets
            /\ output' = r.output
            /\ fault' \in (IF r.ub THEN BOOLEAN ELSE {FALSE})
            /\ e2e' = Follow(offset, data)
    /\ UNCHANGED <<peers, ctrl, irq, ret, sel, pin, objprops>>

\* a guest load
BusRead ==
    /\ ~fault
    /\ \E offset \in Offsets, size \in AccessSizes :
        \E r \in {aspeed_gpio_read(sets, offset, size)} :
            /\ ret' \in (IF r.ub THEN {ZERO, ONES} ELSE {r.val})
            /\ fault' \in (IF r.ub THEN BOOLEAN ELSE {FALSE})
    /\ UNCHANGED <<peers, ctrl, sets, output, irq, e2e, sel, pin, objprops>>

\* aspeed_gpio_get_pin(name): the property getter; the level is visited as
\* 1 or 0, and nothing is visited when the name does not parse
aspeed_gpio_get_pin(name) ==
    \E parsed \in {sscanf_pin(name)} :
        /\ ret' = IF parsed = -1 THEN ret
                  ELSE IF aspeed_gpio_get_pin_level(ctrl, sets, parsed)
                       THEN {0} ELSE ZERO
        /\ UNCHANGED <<peers, ctrl, sets, output, irq, fault, e2e, sel, pin, objprops>>

\* a board gets a pin through the property aspeed_gpio_init added for it
GetPin ==
    /\ ~fault
    /\ \E p \in ProbePins :
           aspeed_gpio_get_pin(aspeed_gpio_init_pin(ctrl, p).name)

Next == BusWrite \/ BusRead \/ SetPin \/ GetPin \/ Reset

Spec == Init /\ [][Next]_vars

(***************************************************************************)
(* Instance initialisation: the loop of aspeed_gpio_init                   *)
(***************************************************************************)
PinsInit ==
    /\ InitCommon
    /\ ctrl \in Controllers
    /\ sel = 0
    /\ pin = 0

\* one iteration: the property of the pin is added, with the locals the
\* iteration computed for it
InitPin ==
    /\ pin < controllers[ctrl].nr_gpio_pins
    /\ objprops' = objprops \cup {aspeed_gpio_init_pin(ctrl, pin)}
    /\ pin' = pin + 1
    /\ UNCHANGED <<peers, ctrl, sets, output, irq, ret, fault, e2e, sel>>

PinsNext == InitPin

SpecPins == PinsInit /\ [][PinsNext]_vars

(***************************************************************************)
(* The evaluation engine on its own: aspeed_gpio_update as a function of   *)
(* the bank it is called on                                                *)
(***************************************************************************)
\* the pins the engine is run on
EngineBits == {0, ProbeBit, 31}

\* a register holding the pin's bit or not
BitIf(cond, b) == IF cond THEN {b} ELSE ZERO

\* the banks the engine is called on: one pin, of any direction and mask,
\* any sensitivity code, any committed level, any requested level, and its
\* bit of int_status set or not
EngineInit ==
    /\ PeersInit
    /\ output = {}
    /\ irq = FALSE
    /\ ret = ZERO
    /\ fault = FALSE
    /\ e2e = 0
    /\ objprops = {}
    /\ ctrl = "ast2600"
    /\ sel = 0
    /\ pin = controllers[ctrl].nr_gpio_pins
    /\ \E b \in EngineBits, m \in 0 .. 7,
          dir \in BOOLEAN, masked \in BOOLEAN,
          old \in BOOLEAN, new \in BOOLEAN, status \in BOOLEAN :
           sets = [ResetSets EXCEPT ![0] =
                      [GPIORegs EXCEPT
                          !.direction = BitIf(dir, b),
                          !.input_mask = BitIf(masked, b),
                          !.int_sens_0 = BitIf(m % 2 = 1, b),
                          !.int_sens_1 = BitIf((m \div 2) % 2 = 1, b),
                          !.int_sens_2 = BitIf(m \div 4 = 1, b),
                          !.data_value = BitIf(old, b),
                          !.data_read = BitIf(new, b),
                          !.int_status = BitIf(status, b)]]

\* the call aspeed_gpio_update(s, &s->sets[sel])
Update ==
    /\ e2e = 0
    /\ \E r \in {aspeed_gpio_update(output, sets[sel])} :
           /\ sets' = [sets EXCEPT ![sel] = r.regs]
           /\ output' = r.output
    /\ e2e' = 1
    /\ UNCHANGED <<peers, ctrl, irq, ret, fault, sel, pin, objprops>>

EngineNext == Update

SpecEngine == EngineInit /\ [][EngineNext]_vars

(***************************************************************************)
(* The arbitration on its own: update_value_control_source as a function   *)
(* of the command-source registers, the old value and the written value    *)
(***************************************************************************)
\* the old and the written values: 0, 0xffffffff, 0x00ff00ff, 0x81422418
MergeWords == {ZERO, ONES, Word(255, 255), {3, 4, 10, 13, 17, 22, 24, 31}}

\* the values of a command-source register: any of the bits 0, 8, 16, 24
\* (the only ones its setter stores)
SourceWords == SUBSET {0, 8, 16, 24}

\* the old value is held by direction, one of the registers the merge
\* guards
MergeInit ==
    /\ PeersInit
    /\ output = {}
    /\ irq = FALSE
    /\ ret = ZERO
    /\ fault = FALSE
    /\ e2e = 0
    /\ objprops = {}
    /\ ctrl = "ast2600"
    /\ sel = 0
    /\ pin = controllers[ctrl].nr_gpio_pins
    /\ \E old \in MergeWords, c0 \in SourceWords, c1 \in SourceWords :
           sets = [ResetSets EXCEPT ![0] =
                      [GPIORegs EXCEPT !.direction = old,
                                       !.cmd_source_0 = c0,
                                       !.cmd_source_1 = c1]]

\* regs->direction = update_value_control_source(regs, regs->direction,
\* value); ret keeps the value written
Merge ==
    /\ e2e = 0
    /\ \E value \in MergeWords :
           /\ sets' = [sets EXCEPT ![sel].direction =
                          update_value_control_source(sets[sel],
                                                      sets[sel].direction,
                                                      value)]
           /\ ret' = value
    /\ e2e' = 1
    /\ UNCHANGED <<peers, ctrl, output, irq, fault, sel, pin, objprops>>

MergeNext == Merge

SpecMerge == MergeInit /\ [][MergeNext]_vars

(***************************************************************************)
(* The command-source registers of a bank, written through the setters as  *)
(* aspeed_gpio_write calls them                                            *)
(***************************************************************************)
\* the banks written: ABCD, and the partly populated banks 6 and 7 where the
\* controller has them
SourceBanks == {0, 6, 7}

\* the values written to a command-source register: 0, base bits of the
\* groups, all bits, and bits 1 and 8
SourceVals == {ZERO, {24}, {16, 24}, ONES, {1, 8}}

SourceInit ==
    /\ InitCommon
    /\ ctrl \in Controllers
    /\ sel \in SourceBanks \cap DOMAIN controllers[ctrl].props
    /\ pin = controllers[ctrl].nr_gpio_pins

SourceWrite0 == \E data \in SourceVals : RegWrite("_write_cmd_source_0", data)
SourceWrite1 == \E data \in SourceVals : RegWrite("_write_cmd_source_1", data)

\* a write to a register the command source guards
GuardedWrite == \E data \in {ZERO, ONES} : RegWrite("_write_reset_tol", data)

SourceNext == SourceWrite0 \/ SourceWrite1 \/ GuardedWrite

SpecSource == SourceInit /\ [][SourceNext]_vars

(***************************************************************************)
(* The PHB3 MSI source: rejects, resends and resets in any order           *)
(***************************************************************************)
\* the sources rejected: the first and the last of both halves of word 0,
\* the first of word 1 and the last of the array
MsiSources == {0, 31, 32, 63, 64, PHB3_MAX_MSI - 1}

MsiInit ==
    /\ InitCommon
    /\ ctrl = "ast2600"
    /\ sel = 0
    /\ pin = controllers[ctrl].nr_gpio_pins

\* the interrupt presenter rejects a source: phb3_msi_reject
Reject ==
    \E srcno \in MsiSources :
        LET r == phb3_msi_reject([rba |-> rba, rba_sum |-> rba_sum], srcno)
        IN  /\ rba' = r.rba
            /\ rba_sum' = r.rba_sum
            /\ rejected' = rejected \cup {srcno}
            /\ UNCHANGED <<resent, leuart_vars, gpio_vars>>

\* the interrupt presenter asks for the rejected sources: phb3_msi_resend.
\* When the undefined shift was evaluated the array is any of: what a
\* shift count modulo 32 leaves, unchanged, all clear
Resend ==
    LET r == phb3_msi_resend([rba |-> rba, rba_sum |-> rba_sum])
    IN  /\ IF r.ub
           THEN rba' \in {r.rba, rba, phb3_msi_reset.rba}
           ELSE rba' = r.rba
        /\ rba_sum' = r.rba_sum
        /\ resent' = [rejected |-> rejected, calls |-> r.calls]
        /\ rejected' = {}
        /\ UNCHANGED <<leuart_vars, gpio_vars>>

\* phb3_msi_reset
MsiReset ==
    /\ rba' = phb3_msi_reset.rba
    /\ rba_sum' = phb3_msi_reset.rba_sum
    /\ rejected' = {}
    /\ resent' = [rejected |-> {}, calls |-> <<>>]
    /\ UNCHANGED <<leuart_vars, gpio_vars>>

MsiNext == Reject \/ Resend \/ MsiReset

SpecMsi == MsiInit /\ [][MsiNext]_vars

(***************************************************************************)
(* The LEUART: the backend delivers bytes when efm32hg_leuart_can_receive  *)
(* allows it, the guest reads and writes the registers                     *)
(***************************************************************************)
\* the bytes 'A' and 0xff
UartBytes == {WordFrom(65, 0), WordFrom(255, 0)}

UartOffsets == {LEUART_CMD, LEUART_STATUS, LEUART_RXDATA, LEUART_TXDATA}

\* the values written: 0, the RXEN and RXDIS commands, STATUS bit 5
UartVals == {ZERO, BIT(0), BIT(1), BIT(5)}

LeuartInit ==
    /\ InitCommon
    /\ ctrl = "ast2600"
    /\ sel = 0
    /\ pin = controllers[ctrl].nr_gpio_pins

\* the character backend has a byte: it calls efm32hg_leuart_receive only
\* after efm32hg_leuart_can_receive returned non-zero
Receive ==
    /\ efm32hg_leuart_can_receive(s_reg) # 0
    /\ \E buf \in UartBytes :
           LET r == efm32hg_leuart_receive(s_reg, buf)
           IN  /\ s_reg' = r.reg
               /\ dropped' = r.dropped
    /\ UNCHANGED <<rxret, msi_vars, gpio_vars>>

\* a guest load: efm32hg_leuart_read
LeuartRead ==
    /\ \E offset \in UartOffsets :
           LET r == efm32hg_leuart_read(s_reg, offset)
           IN  /\ s_reg' = r.reg
               /\ rxret' = r.ret
    /\ UNCHANGED <<dropped, msi_vars, gpio_vars>>

\* a guest store: efm32hg_leuart_write
LeuartWrite ==
    /\ \E offset \in UartOffsets, value \in UartVals :
           s_reg' = efm32hg_leuart_write(s_reg, offset, value)
    /\ UNCHANGED <<dropped, rxret, msi_vars, gpio_vars>>

\* efm32hg_leuart_reset
LeuartReset ==
    /\ s_reg' = efm32hg_leuart_reset
    /\ UNCHANGED <<dropped, rxret, msi_vars, gpio_vars>>

LeuartNext == Receive \/ LeuartRead \/ LeuartWrite \/ LeuartReset

SpecLeuart == LeuartInit /\ [][LeuartNext]_vars

(***************************************************************************)
(* Properties of the register file                                         *)
(***************************************************************************)
\* the bank the register-level operations act on
bank == sets[sel]

\* the sensitivity code of a pin as the three registers hold it
\* (int_sens_2, int_sens_1, int_sens_0)
SensBits(regs, b) ==
    <<IF b \in regs.int_sens_2 THEN 1 ELSE 0,
      IF b \in regs.int_sens_1 THEN 1 ELSE 0,
      IF b \in regs.int_sens_0 THEN 1 ELSE 0>>

\* the pin is an output and is not input-masked
Driven(regs, b) == b \in regs.direction /\ b \notin regs.input_mask

\* the command-source code of the group of pin b is ARM: both command-source
\* registers hold 0 at the group's base bit
ArmOwned(regs, b) ==
    /\ 8 * (b \div 8) \notin regs.cmd_source_0
    /\ 8 * (b \div 8) \notin regs.cmd_source_1

\* the selected bank after the write of data through the named setter
After(name, data) == WriteResult(name, data).regs

\* C1: for a pin that is an output, not input-masked and of sensitivity code
\* rising-edge (001), a data-value write that takes the pin from 0 to 1 sets
\* its bit of int_status, and one that takes it from 1 to 0 leaves an
\* int_status bit that was 0 at 0.
C1_RisingEdge ==
    \A b \in BitPos :
        (Driven(bank, b) /\ SensBits(bank, b) = <<0, 0, 1>>)
        => \A data \in Vals :
               LET post == After("_write_data_value", data)
               IN  /\ (b \notin bank.data_value /\ b \in post.data_value)
                          => b \in post.int_status
                   /\ (b \in bank.data_value /\ b \notin post.data_value
                           /\ b \notin bank.int_status)
                          => b \notin post.int_status

\* the rising-edge output pin is 0 with its int_status bit 0, and the
\* data-value write of 1 takes it to 1 and sets that bit
C1_Witness ==
    /\ Driven(bank, Probe)
    /\ SensBits(bank, Probe) = <<0, 0, 1>>
    /\ Probe \notin bank.data_value
    /\ Probe \notin bank.int_status
    /\ Probe \in After("_write_data_value", {Probe}).data_value
    /\ Probe \in After("_write_data_value", {Probe}).int_status
    /\ ENABLED WriteDataValue

\* C2 as stated: for an output, unmasked pin of sensitivity code level-high
\* (011), every data-value write after which the pin is 1 sets its bit of
\* int_status, whatever the pin was before the write.
C2_AnyWrite ==
    \A b \in BitPos :
        (Driven(bank, b) /\ SensBits(bank, b) = <<0, 1, 1>>)
        => \A data \in Vals :
               LET post == After("_write_data_value", data)
               IN  b \in post.data_value => b \in post.int_status

\* C2: for an output, unmasked pin of sensitivity code level-high (011), a
\* data-value write that takes the pin from 0 to 1 sets its bit of
\* int_status, and a data-value write that leaves the pin at 1 leaves its bit
\* of int_status as it was.
C2_LevelHigh ==
    \A b \in BitPos :
        (Driven(bank, b) /\ SensBits(bank, b) = <<0, 1, 1>>)
        => \A data \in Vals :
               LET post == After("_write_data_value", data)
               IN  /\ (b \notin bank.data_value /\ b \in post.data_value)
                          => b \in post.int_status
                   /\ (b \in bank.data_value /\ b \in post.data_value)
                          => (b \in post.int_status) = (b \in bank.int_status)

\* the level-high output pin is 1 with its int_status bit cleared, and the
\* data-value write of 1 to it leaves that bit cleared
C2_Witness ==
    /\ Driven(bank, Probe)
    /\ SensBits(bank, Probe) = <<0, 1, 1>>
    /\ ArmOwned(bank, Probe)
    /\ Probe \in bank.data_value
    /\ Probe \notin bank.int_status
    /\ Probe \in After("_write_data_value", {Probe}).data_value
    /\ Probe \notin After("_write_data_value", {Probe}).int_status
    /\ ENABLED WriteDataValue

\* the setters that pass the written value through
\* update_value_control_source, and the registers each of them writes
Arbitrated ==
    [_write_data_value |-> {"data_read", "data_value"},
     _write_direction |-> {"direction"},
     _write_int_enable |-> {"int_enable"},
     _write_int_sens_0 |-> {"int_sens_0"},
     _write_int_sens_1 |-> {"int_sens_1"},
     _write_int_sens_2 |-> {"int_sens_2"},
     _write_reset_tol |-> {"reset_tol"},
     _write_debounce_1 |-> {"debounce_1"},
     _write_debounce_2 |-> {"debounce_2"}]

\* the bits of a word that belong to the 8-bit group of bit b
GroupOf(w, b) == {x \in w : x \div 8 = b \div 8}

\* C3: while the command-source code of an 8-bit group is not ARM, a write
\* to data_value, direction, int_enable, int_sens_0/1/2, reset_tol,
\* debounce_1 or debounce_2 leaves the group's bits of the written register
\* (for data_value: of data_read and of data_value) unchanged.
C3_NotArmOwned ==
    \A i \in {0, 8, 16, 24} :
        ~ArmOwned(bank, i)
        => \A name \in DOMAIN Arbitrated, data \in Vals :
               \A f \in Arbitrated[name] :
                   GroupOf(After(name, data)[f], i) = GroupOf(bank[f], i)

\* the group of the probed pin is not ARM's, the pin is an output, and the
\* write of 0 to direction leaves it an output
C3_Witness ==
    /\ ~ArmOwned(bank, Probe)
    /\ Probe \in bank.direction
    /\ Probe \in After("_write_direction", ZERO).direction
    /\ ENABLED WriteDirection

\* C4 as stated: for an output pin that is not input-masked, a write of v to
\* the pin's bit of the data-value register followed by a read of the
\* register returns v for the pin.
C4_RoundTrip ==
    \A b \in BitPos :
        Driven(bank, b)
        => \A data \in Vals :
               (b \in read_data_value(After("_write_data_value", data)))
                   = (b \in data)

\* C4: for an output pin that is not input-masked and whose group's
\* command-source code is ARM, a write of v to the pin's bit of the
\* data-value register followed by a read of the register returns v for the
\* pin.
C4_RoundTripArm ==
    \A b \in BitPos :
        (Driven(bank, b) /\ ArmOwned(bank, b))
        => \A data \in Vals :
               (b \in read_data_value(After("_write_data_value", data)))
                   = (b \in data)

\* the probed pin is an ARM-owned unmasked output at 0, and the write of 1 to
\* it reads back as 1
C4_Witness ==
    /\ Driven(bank, Probe)
    /\ ArmOwned(bank, Probe)
    /\ Probe \notin read_data_value(bank)
    /\ Probe \in read_data_value(After("_write_data_value", {Probe}))
    /\ ENABLED WriteDataValue

\* C5: writing to int_status the value it holds leaves the registers of the
\* bank and every interrupt line as they were.
C5_IntStatusIdempotent ==
    \A data \in Vals :
        AND(data, LegalBits(ctrl, sel)) = bank.int_status
        => WriteResult("_write_int_status", data)
               = [regs |-> bank, output |-> output]

\* int_status holds the bit of the probed pin, whose line has been raised,
\* and writing that value to int_status changes nothing
C5_Witness ==
    /\ bank.int_status = {Probe}
    /\ Probe \in output
    /\ After("_write_int_status", {Probe}) = bank
    /\ ENABLED WriteIntStatus

\* C10: across a register write or a pin-level set, a bit of a bank's
\* data_value changes only if, where aspeed_gpio_update runs, the pin is an
\* output and is not input-masked.
C10_DataValueFrame ==
    [][(\A s \in SetIdx :
          \A b \in XOR(sets[s].data_value, sets'[s].data_value) :
              Driven(sets'[s], b))
       \/ ~RegsOperation]_vars

\* the probed pin of bank 0 is an unmasked output, and a pin-level set is
\* about to change its bit of data_value
C10_Witness ==
    /\ Driven(sets[0], ProbeBit)
    /\ ENABLED (/\ SetPin
                /\ ProbeBit \in XOR(sets[0].data_value, sets'[0].data_value))

\* C11: int_status is sticky: across an operation other than a write to the
\* int_status register of the bank and the device reset, no bit of the
\* int_status of any bank goes from 1 to 0.
C11_IntStatusSticky ==
    [][\A s \in SetIdx :
           (sets[s].int_status \ sets'[s].int_status) # {}
           => (Reset \/ (s = sel /\ WriteIntStatus))]_vars

\* the probed pin's bit of int_status is set, and a write to data_value is
\* about to change the bank
C11_Witness ==
    /\ Probe \in bank.int_status
    /\ ENABLED (WriteDataValue /\ sets'[sel] # sets[sel])

(***************************************************************************)
(* Properties of the pin translation                                       *)
(***************************************************************************)
\* C6: the ast2400 has 216 pins and its gap at 196, the ast2500 228 pins and
\* its gap at 220, the ast2600 208 pins and no gap; on the pins of a
\* controller the translation of a pin to its bank and its bit in the bank
\* is injective, every bank index is below nr_gpio_sets, and a pin below the
\* gap (any pin when there is no gap) translates to (pin >> 5, pin & 31).
C6_Translation ==
    /\ <<controllers[ctrl].nr_gpio_pins, controllers[ctrl].gap>>
           = CASE ctrl = "ast2400" -> <<216, 196>>
               [] ctrl = "ast2500" -> <<228, 220>>
               [] ctrl = "ast2600" -> <<208, 0>>
    /\ Cardinality({<<r.set_idx, r.pin_idx>> : r \in objprops})
           = Cardinality({r.pin : r \in objprops})
    /\ \A r \in objprops :
           /\ r.set_idx < controllers[ctrl].nr_gpio_sets
           /\ (controllers[ctrl].gap = 0 \/ r.pin < controllers[ctrl].gap)
                  => r.set_idx = r.pin \div 32 /\ r.pin_idx = r.pin % 32

\* the loop has run over the 228 pins of the ast2500, whose last pin, past
\* the gap, is bit 7 of bank 7
C6_Witness ==
    /\ ctrl = "ast2500"
    /\ pin = controllers[ctrl].nr_gpio_pins
    /\ Cardinality(objprops) = 228
    /\ \E r \in objprops : r.pin = 227 /\ r.set_idx = 7 /\ r.pin_idx = 7

\* C7 as stated: the image of the pins of a controller under the translation
\* is the set of the (bank, bit) pairs of which the bank's descriptor has the
\* bit in its input or its output mask: every pin lands on such a bit, and
\* every such bit of the controller's banks is some pin's.
C7_ImageIsLegal ==
    /\ \A r \in objprops : r.pin_idx \in LegalBits(ctrl, r.set_idx)
    /\ pin = controllers[ctrl].nr_gpio_pins
           => \A s \in 0 .. (controllers[ctrl].nr_gpio_sets - 1) :
                  \A b \in LegalBits(ctrl, s) :
                      \E r \in objprops : r.set_idx = s /\ r.pin_idx = b

(***************************************************************************)
(* Properties of the bus interface                                         *)
(***************************************************************************)
\* C8 as stated: on an ast2600, from reset, after the writes that make pin 3
\* of bank ABCD an output (0x004) of rising-edge sensitivity (0x00C, 0x010,
\* 0x014), the write of 0 to the pin at 0x000 sets no int_status bit, and
\* the following write of 1 to the pin at 0x000 sets the pin's bit of bank
\* ABCD's int_status and asserts an interrupt output.
C8_EndToEnd ==
    ctrl = "ast2600"
    => /\ e2e = Len(Scenario) - 1
              => \A s \in SetIdx : sets[s].int_status = ZERO
       /\ e2e = Len(Scenario)
              => /\ ProbeBit \in sets[0].int_status
                 /\ (irq \/ output # {})

\* C9 as stated: a 32-bit read at 0x0C0, the byte offset of
\* GPIO_ABCD_DATA_READ, returns data_read of bank ABCD.
C9_ReadsDataRead ==
    ~fault => aspeed_gpio_read(sets, 192, 4) = [ub |-> FALSE,
                                                val |-> sets[0].data_read]

\* C12 as stated: for every byte offset of the 3.3V domain (0x000 to 0x1EC)
\* at which the table defines a register, the entry of index offset >> 2, a
\* read at the offset returns what the getter of that entry returns for the
\* bank of that entry, and a write at the offset is the call of the setter
\* of that entry on the bank of that entry: the access is neither rejected
\* nor dispatched to another register or bank.
C12_Dispatch ==
    ~fault
    => \A offset \in Offsets :
           (offset <= 492 /\ \E e \in GpioEntries : e[1] = offset \div 4)
           => LET e == gpios[offset \div 4]
              IN  /\ e.get # "NULL"
                         => aspeed_gpio_read(sets, offset, 4)
                                = [ub |-> FALSE,
                                   val |-> CallGet(e.get, sets[e.set_idx])]
                  /\ (e.set # "NULL"
                         /\ e.set_idx \in DOMAIN controllers[ctrl].props)
                         => \A data \in BusVals :
                                LET r == CallSet(e.set, output, sets[e.set_idx],
                                                 controllers[ctrl].props[e.set_idx],
                                                 AND(data, LegalBits(ctrl, e.set_idx)))
                                IN  aspeed_gpio_write(ctrl, sets, output,
                                                      offset, data, 4)
                                        = [ub |-> FALSE,
                                           sets |-> [sets EXCEPT
                                                        ![e.set_idx] = r.regs],
                                           output |-> r.output]

\* C13 as stated: for every byte offset of 0x800 to 0x9D7 at which a 1.8V
\* register is defined, the entry of index (offset - 0x600) >> 2, the
\* translation of the offset yields that index, and a read at the offset
\* returns what the getter of that entry returns for the bank of that entry.
C13_Translate18 ==
    \A offset \in Offsets :
        (/\ offset >= 2048
         /\ offset < 2520
         /\ \E e \in GpioEntries : e[1] = (offset - 1536) \div 4)
        => LET e == gpios[(offset - 1536) \div 4]
           IN  /\ aspeed_offset_to_idx(offset) = (offset - 1536) \div 4
               /\ (~fault /\ e.get # "NULL")
                      => aspeed_gpio_read(sets, offset, 4)
                             = [ub |-> FALSE,
                                val |-> CallGet(e.get, sets[e.set_idx])]

\* C14 as stated: a rejected access is a pure no-op: a read at an offset
\* that is out of bounds or whose table entry has no getter returns 0, and a
\* write at an offset that is out of bounds or whose table entry has no
\* setter leaves the registers of every bank and the lines as they were,
\* with nothing undefined on the way.
C14_RejectedIsNoOp ==
    ~fault
    => \A offset \in Offsets :
           /\ (\/ aspeed_offset_to_idx(offset) = -1
               \/ (offset \in DOMAIN gpios /\ gpios[offset].get = "NULL"))
                  => aspeed_gpio_read(sets, offset, 4)
                         = [ub |-> FALSE, val |-> ZERO]
           /\ (\/ aspeed_offset_to_idx(offset) = -1
               \/ (offset \in DOMAIN gpios /\ gpios[offset].set = "NULL"))
                  => \A data \in BusVals :
                         aspeed_gpio_write(ctrl, sets, output, offset, data, 4)
                             = [ub |-> FALSE, sets |-> sets, output |-> output]

\* C15 as stated: no guest access is fatal: no access ends the process, and
\* for every offset, read or written, the handler does not index the table
\* outside its GPIO_REG_ARRAY_SIZE entries (an offset that does not resolve
\* to a valid index is rejected before an entry is consulted).
C15_NeverOutsideTable ==
    /\ ~fault
    /\ \A offset \in Offsets :
           /\ ~aspeed_gpio_read(sets, offset, 4).ub
           /\ \A data \in BusVals :
                  aspeed_gpio_write(ctrl, sets, output, offset, data, 4).ub
                  => offset \in DOMAIN gpios

\* the registers of a bank that have a setter
WritableRegs ==
    {"direction", "int_enable", "int_sens_0", "int_sens_1", "int_sens_2",
     "int_status", "reset_tol", "debounce_1", "debounce_2", "cmd_source_0",
     "cmd_source_1", "input_mask"}

\* no writable register of a bank of the controller has a bit outside the
\* input and output masks of the bank's descriptor
OnlyLegalBits ==
    \A s \in SetIdx \cap DOMAIN controllers[ctrl].props :
        \A reg \in WritableRegs :
            \A b \in sets[s][reg] : b \in LegalBits(ctrl, s)

\* the offset is one whose write reaches a setter
Accepted(offset) ==
    /\ offset \in DOMAIN gpios
    /\ aspeed_offset_to_idx(offset) # -1
    /\ gpios[offset].set # "NULL"
    /\ gpios[offset].set_idx \in DOMAIN controllers[ctrl].props

\* C16 as stated: from reset, after any sequence of bus writes, no writable
\* register of a bank has a bit outside the input and output masks of the
\* bank's descriptor, and a write of a value that has only illegal bits
\* changes nothing.
C16_IllegalWriteChangesNothing ==
    /\ OnlyLegalBits
    /\ \A offset \in Offsets, data \in BusVals :
           (/\ Accepted(offset)
            /\ data # ZERO
            /\ AND(data, LegalBits(ctrl, gpios[offset].set_idx)) = ZERO)
           => aspeed_gpio_write(ctrl, sets, output, offset, data, 4)
                  = [ub |-> FALSE, sets |-> sets, output |-> output]

\* C16: from reset, after any sequence of bus writes, no writable register
\* of a bank has a bit outside the input and output masks of the bank's
\* descriptor, and a write acts as the write of the legal bits of its value:
\* a write of a value that has only illegal bits acts as a write of 0.
C16_IllegalBitsDropped ==
    /\ OnlyLegalBits
    /\ \A offset \in Offsets :
           (Accepted(offset) /\ LegalBits(ctrl, gpios[offset].set_idx) # ONES)
           => \A data \in BusVals :
                  \E legal \in {AND(data, LegalBits(ctrl, gpios[offset].set_idx))} :
                      legal # data
                      => aspeed_gpio_write(ctrl, sets, output, offset, data, 4)
                             = aspeed_gpio_write(ctrl, sets, output, offset,
                                                 legal, 4)

\* on the ast2600, whose bank 6 has pins 16 to 31 only, the write of pins 3
\* and 19 to a register of bank 6 has left pin 19 alone in it, and the write
\* of pin 3 is about to clear it
C16_Witness ==
    /\ ctrl = "ast2600"
    /\ ProbeBit \notin LegalBits(ctrl, 6)
    /\ sets[6].int_sens_1 = {InputOnlyBit}
    /\ aspeed_gpio_write(ctrl, sets, output, 96, {ProbeBit}, 4).sets[6].int_sens_1
           = ZERO

\* the access sizes other than 4 a handler can be called with
OtherSizes == {1, 2, 8}

C18_SharedLinePulsed ==
    /\ ~irq
    /\ output = {}

\* C19: the device reset, from any reachable state, leaves every one of the
\* 14 registers of every bank at zero: every group is ARM-owned, every pin
\* is an input of level 0, and no bit of int_status is set.
C19_ResetZeroes ==
    [][Reset
       => \A s \in SetIdx :
              /\ Cardinality(DOMAIN sets'[s]) = 14
              /\ \A reg \in DOMAIN sets'[s] : sets'[s][reg] = ZERO
              /\ \A b \in BitPos :
                     /\ ArmOwned(sets'[s], b)
                     /\ b \notin sets'[s].direction
                     /\ b \notin sets'[s].data_value
                     /\ b \notin sets'[s].int_status]_vars

\* the probed pin is an output at 1 with its bits of int_status and of
\* reset_tol set, its group is not ARM-owned, and the reset is about to
\* change the banks
C19_Witness ==
    /\ Probe \in bank.direction
    /\ Probe \in bank.data_value
    /\ Probe \in bank.int_status
    /\ Probe \in bank.reset_tol
    /\ ~ArmOwned(bank, Probe)
    /\ ENABLED (Reset /\ sets' # sets)

\* the bank and the bit a get or a set through the property of pin p
\* addresses: those of the pin number read back from the property's name
Addressed(p) ==
    LET parsed == sscanf_pin(aspeed_gpio_init_pin(ctrl, p).name)
    IN  <<aspeed_get_set_idx_from_pin(ctrl, parsed), parsed>>

\* C20 as stated: the property created for a pin addresses the bank and the
\* bit the translation gives the pin, the properties of two pins never
\* address the same bit, and for a pin that is an unmasked output a set of a
\* level through its property followed by a get through it returns the
\* level.
C20_AccessorPerPin ==
    /\ \A p \in ProbePins :
           LET a == aspeed_gpio_init_pin(ctrl, p)
               parsed == sscanf_pin(a.name)
           IN  /\ Addressed(p) = <<a.set_idx, a.pin_idx>>
               /\ (~fault /\ Driven(sets[a.set_idx], a.pin_idx))
                      => \A level \in BOOLEAN :
                             aspeed_gpio_get_pin_level(ctrl,
                                 aspeed_gpio_set_pin_level(ctrl, sets, output,
                                                           parsed, level).sets,
                                 parsed) = level
    /\ \A p, q \in ProbePins : p # q => Addressed(p) # Addressed(q)

\* C21 as stated: a pin-level set of pin p to either level changes at most
\* the pin's bit of data_read of the pin's bank: every other bit of that
\* data_read, and every register of every other bank, is as before.
C21_SingleBitSet ==
    ~fault
    => \A p \in ProbePins, level \in BOOLEAN :
           LET parsed == sscanf_pin(aspeed_gpio_init_pin(ctrl, p).name)
               set_idx == aspeed_get_set_idx_from_pin(ctrl, parsed)
               r == aspeed_gpio_set_pin_level(ctrl, sets, output, parsed, level)
           IN  /\ XOR(r.sets[set_idx].data_read, sets[set_idx].data_read)
                      \subseteq {parsed}
               /\ \A s \in SetIdx \ {set_idx} : r.sets[s] = sets[s]

(***************************************************************************)
(* Properties of the evaluation engine and of the arbitration              *)
(***************************************************************************)
\* the sensitivity code of a pin, int_sens_2 : int_sens_1 : int_sens_0
SensCode(regs, b) ==
    4 * SensBits(regs, b)[1] + 2 * SensBits(regs, b)[2] + SensBits(regs, b)[3]

\* C22: for a pin that is an unmasked output and whose committed level o
\* differs from the requested level n, the engine leaves the pin's bit of
\* int_status set exactly when it was set before or the sensitivity code m
\* and the change are one of: m = 0 and 1 -> 0, m = 1 and 0 -> 1, m = 2 and
\* n = 0, m = 3 and n = 1, m >= 4.
C22_SensitivityTable ==
    \A b \in BitPos :
        (Driven(bank, b) /\ b \in XOR(bank.data_value, bank.data_read))
        => LET post == aspeed_gpio_update(output, bank).regs
               m == SensCode(bank, b)
               o == b \in bank.data_value
               n == b \in bank.data_read
               fires == \/ (m = 0 /\ o /\ ~n)
                        \/ (m = 1 /\ ~o /\ n)
                        \/ (m = 2 /\ ~n)
                        \/ (m = 3 /\ n)
                        \/ m >= 4
           IN  (b \in post.int_status) <=> (fires \/ b \in bank.int_status)

\* the engine has run on a pin of level-low sensitivity that went to 0, and
\* has set the pin's bit of int_status and raised its line
C22_Witness ==
    \E b \in EngineBits :
        /\ e2e = 1
        /\ Driven(bank, b)
        /\ SensCode(bank, b) = ASPEED_LEVEL_LOW
        /\ b \notin bank.data_value
        /\ b \in bank.int_status
        /\ output = {b}

\* the bits of group g of a word
GroupBits(g) == (8 * g) .. (8 * g + 7)

\* C23: for every old value, written value and pair of command-source
\* registers, each of the four groups of the merged word is the group of
\* the written value when the owner code at the group's base bit is 0 (ARM)
\* and the group of the old value otherwise; with both command-source
\* registers zero the merged word is the written value.
C23_MergePerGroup ==
    \A value \in MergeWords :
        LET r == update_value_control_source(bank, bank.direction, value)
        IN  /\ \A g \in 0 .. 3 :
                   r \cap GroupBits(g)
                     = (IF 8 * g \notin bank.cmd_source_0
                           /\ 8 * g \notin bank.cmd_source_1
                        THEN value
                        ELSE bank.direction) \cap GroupBits(g)
            /\ (bank.cmd_source_0 = ZERO /\ bank.cmd_source_1 = ZERO)
                   => r = value

\* 0 has been written over 0xffffffff with the second group owned by the
\* LPC and the third by the coprocessor: the two groups kept the old byte,
\* the ARM-owned first and fourth took the written one
C23_Witness ==
    /\ e2e = 1
    /\ ret = ZERO
    /\ bank.cmd_source_0 = {8}
    /\ bank.cmd_source_1 = {16}
    /\ bank.direction = GroupBits(1) \cup GroupBits(2)

\* the bank after the writes of 0 to cmd_source_0 and then to cmd_source_1
AfterSourcesCleared ==
    CallSet("_write_cmd_source_1", output,
            After("_write_cmd_source_0", ZERO),
            controllers[ctrl].props[sel], ZERO).regs

\* C24 as stated: after a write to cmd_source_0 or cmd_source_1 the register
\* is the written value restricted to the bits 0, 8, 16 and 24, whatever the
\* owner of each group, and a write of 0 to both makes every group of the
\* bank ARM-owned.
C24_SourceIsValueMasked ==
    /\ \A data \in SourceVals :
           /\ After("_write_cmd_source_0", data).cmd_source_0
                  = AND(data, ASPEED_CMD_SRC_MASK)
           /\ After("_write_cmd_source_1", data).cmd_source_1
                  = AND(data, ASPEED_CMD_SRC_MASK)
    /\ \A b \in BitPos : ArmOwned(AfterSourcesCleared, b)

\* C24: after a write to cmd_source_0 or cmd_source_1 the register is the
\* written value restricted to those of the bits 0, 8, 16 and 24 that are
\* legal for the bank (in the input or output mask of its descriptor),
\* whatever the owner of each group, and a write of 0 to both makes every
\* group of the bank ARM-owned.
C24_SourceDirect ==
    /\ \A data \in SourceVals :
           /\ After("_write_cmd_source_0", data).cmd_source_0
                  = AND(AND(data, LegalBits(ctrl, sel)), ASPEED_CMD_SRC_MASK)
           /\ After("_write_cmd_source_1", data).cmd_source_1
                  = AND(AND(data, LegalBits(ctrl, sel)), ASPEED_CMD_SRC_MASK)
    /\ \A b \in BitPos : ArmOwned(AfterSourcesCleared, b)

\* bank 6 of the ast2600, which has the pins 16 to 31: its last two groups
\* are owned by the coprocessor and the reserved source, the only groups
\* the writes could give away
C24_Witness ==
    /\ ctrl = "ast2600"
    /\ sel = 6
    /\ bank.cmd_source_0 = {24}
    /\ bank.cmd_source_1 = {16, 24}
    /\ bank.reset_tol # ZERO

\* C25 as stated: a pin whose bit of int_enable is 0 causes no change of
\* int_status and no interrupt line to be raised: across a write to
\* data_value the pin's bit of int_status and the pin's line are as before.
C25_EnableGates ==
    \A data \in Vals :
        LET r == WriteResult("_write_data_value", data)
        IN  \A b \in BitPos :
                b \notin bank.int_enable
                => /\ (b \in r.regs.int_status) <=> (b \in bank.int_status)
                   /\ (b \in r.output) <=> (b \in output)

\* C26: after the reset and after every operation, in every bank data_value
\* and data_read agree on every pin that is an unmasked output: no requested
\* level of a drivable pin is left pending.
C26_NothingPending ==
    \A s \in SetIdx :
        \A b \in XOR(sets[s].data_value, sets[s].data_read) :
            ~Driven(sets[s], b)

\* the probed pin is an unmasked output and the level 1 requested for it
\* has been committed
C26_Witness ==
    /\ Driven(bank, Probe)
    /\ Probe \in bank.data_read
    /\ Probe \in bank.data_value

\* C27 as stated: an access at an offset whose table entry names a bank the
\* controller does not have (an index not below nr_gpio_sets, or without an
\* entry in the controller's descriptors) is rejected: the read returns 0
\* and the write leaves the banks and the lines as they were, with nothing
\* undefined on the way.
C27_BankExists ==
    ~fault
    => \A offset \in Offsets \cap DOMAIN gpios :
           (\/ gpios[offset].set_idx >= controllers[ctrl].nr_gpio_sets
            \/ gpios[offset].set_idx \notin DOMAIN controllers[ctrl].props)
           => /\ aspeed_gpio_read(sets, offset, 4)
                     = [ub |-> FALSE, val |-> ZERO]
              /\ \A data \in BusVals :
                     aspeed_gpio_write(ctrl, sets, output, offset, data, 4)
                         = [ub |-> FALSE, sets |-> sets, output |-> output]

\* the table entries of the 1.8V registers: those of index (0x800 - 0x600)
\* >> 2 and above
Is18(index) == index >= 128 /\ \E e \in GpioEntries : e[1] = index

\* the table entries of the 3.3V registers
Is33(index) == index < 128 /\ \E e \in GpioEntries : e[1] = index

\* C28 as stated: a write that goes through a table entry of a 1.8V
\* register changes no register of the banks 0 (ABCD) and 1 (EFGH) of the
\* 3.3V domain, and a write that goes through an entry of a 3.3V register
\* does not change what a read through an entry of a 1.8V register returns.
C28_Isolated18 ==
    ~fault
    => \A offset \in Offsets \cap DOMAIN gpios, data \in BusVals :
           LET w == aspeed_gpio_write(ctrl, sets, output, offset, data, 4)
           IN  /\ Is18(offset) => (w.sets[0] = sets[0] /\ w.sets[1] = sets[1])
               /\ Is33(offset)
                      => \A o18 \in Offsets \cap DOMAIN gpios :
                             Is18(o18)
                             => aspeed_gpio_read(w.sets, o18, 4)
                                    = aspeed_gpio_read(sets, o18, 4)

(***************************************************************************)
(* Properties of the PHB3 MSI source and of the LEUART                     *)
(***************************************************************************)
\* the number of times phb3_msi_try_send was called for srcno
Calls(log, srcno) == Cardinality({k \in DOMAIN log : log[k] = srcno})

\* C29: every source rejected through phb3_msi_reject, whatever its number
\* modulo 64, is re-sent with force set exactly once by the next
\* phb3_msi_resend, and after that resend no reject bit is left: rba_sum
\* is 0 and every word of rba is 0.
C29_RejectedResentOnce ==
    /\ \A srcno \in resent.rejected : Calls(resent.calls, srcno) = 1
    /\ rejected = {} =>
           rba_sum = ZERO /\ \A i \in RbaIdx : rba[i] = {}

\* an unread byte is pending: STATUS bit 5
Pending(r) == AND(r[LEUART_STATUS], BIT(5)) # ZERO

\* C30: reception is never blocked for good: efm32hg_leuart_can_receive is
\* non-zero exactly when no unread byte is pending, a byte delivered then
\* is stored in RXDATA and becomes the pending byte, and a guest read of
\* RXDATA ends the pending state.
C30_ReceptionNotBlocked ==
    /\ (efm32hg_leuart_can_receive(s_reg) # 0) <=> ~Pending(s_reg)
    /\ ~Pending(s_reg) =>
           \A buf \in UartBytes :
               LET r == efm32hg_leuart_receive(s_reg, buf)
               IN  r.reg[LEUART_RXDATA] = buf /\ Pending(r.reg)
    /\ ~Pending(efm32hg_leuart_read(s_reg, LEUART_RXDATA).reg)

=============================================================================
